---------------------------- MODULE Spec2Model ----------------------------
(***************************************************************************)
(* A model of analyze_acronyms.py: the recursive document loader           *)
(* (read_latex_recursive), main's use of it, and the usage scanner         *)
(* (scan_acronyms) with the definition extractor that feeds it.            *)
(*                                                                         *)
(* Text is modelled at the level of characters: a line is a TLA+ string    *)
(* and every regular expression of the source is an operator that walks    *)
(* the string the way the regular expression engine does.                  *)
(***************************************************************************)
EXTENDS Integers, Sequences, FiniteSets, TLC

VARIABLES
    present,    \* the paths that exist on the file system (path.exists())
    files,      \* path -> the lines the file holds, fixed when it is first read
    opened,     \* the paths whose lines have been fixed
    budget,     \* lines the document tree may still reveal (model bound)
    seen,       \* read_latex_recursive's shared `seen` set
    stack,      \* the call stack of read_latex_recursive, innermost frame last
    entries,    \* main's `entries`: the record sequence the load returned
    pc,         \* main's position
    acronym_defs,          \* extract_defined_acronyms: the definitions found
    xi,                    \* extract_defined_acronyms: records looked at
    document_started,      \* scan_acronyms: the marker has been seen
    content_entries,       \* scan_acronyms: the records of the body
    bi,                    \* scan_acronyms: records looked at for the body
    used_full,             \* scan_acronyms: key -> records using the long form
    used_short,            \* scan_acronyms: key -> records using the short form
    uk,                    \* scan_acronyms: definitions scanned for usage
    undefined_counts,      \* scan_acronyms: token -> its occurrences
    undefined_full_forms,  \* scan_acronyms: token -> recovered long forms
    ui,                    \* scan_acronyms: body records scanned for tokens
    undefined,             \* scan_acronyms: the retained occurrences
    retained,              \* scan_acronyms: the noise filter has run
    inconsistent_usage,    \* scan_acronyms: token -> standalone long forms
    checked,               \* scan_acronyms: the (token, long form) pairs done
    text,                  \* extract_sentence_containing_text: the line
    target_text,           \* extract_sentence_containing_text: the target
    target_pos,            \* extract_sentence_containing_text: text.find's index
    sentence_start,        \* extract_sentence_containing_text: 0-based start
    sentence_end,          \* extract_sentence_containing_text: 0-based end
    sentence,              \* extract_sentence_containing_text: the sentence
    si,                    \* extract_sentence_containing_text: the loops' `i`
    best_start,            \* extract_sentence_containing_text: narrowed start
    best_end               \* extract_sentence_containing_text: narrowed end

loaderVars == <<present, files, opened, budget, seen, stack>>
scanVars ==
    <<acronym_defs, xi, document_started, content_entries, bi, used_full,
      used_short, uk, undefined_counts, undefined_full_forms, ui, undefined,
      retained, inconsistent_usage, checked>>
sentenceVars ==
    <<text, target_text, target_pos, sentence_start, sentence_end, sentence, si,
      best_start, best_end>>
vars == <<loaderVars, entries, pc, scanVars, sentenceVars>>

-----------------------------------------------------------------------------
(* Bounds of the model.                                                    *)

\* Total number of lines the files of one document tree hold together.
MaxLines == 4
\* Depth at which the interpreter's recursion limit stops the recursion.
MaxDepth == 5
\* Number of records of the sequence handed to the extractor and the scanner.
MaxRecords == 3

-----------------------------------------------------------------------------
(* Strings.                                                                *)

Ch(s, i) == SubSeq(s, i, i)

StartsWithAt(s, p, pre) ==
    /\ p + Len(pre) - 1 <= Len(s)
    /\ SubSeq(s, p, p + Len(pre) - 1) = pre

EndsWith(s, suf) ==
    /\ Len(suf) <= Len(s)
    /\ SubSeq(s, Len(s) - Len(suf) + 1, Len(s)) = suf

IsSpace(c) == c \in {" ", "\t"}

\* str.lstrip()
LStrip(s) ==
    LET kept == {i \in 1..Len(s) : ~IsSpace(Ch(s, i))}
    IN IF kept = {} THEN ""
       ELSE SubSeq(s, CHOOSE i \in kept : \A j \in kept : i <= j, Len(s))

\* str.rstrip()
RStrip(s) ==
    LET kept == {i \in 1..Len(s) : ~IsSpace(Ch(s, i))}
    IN IF kept = {} THEN ""
       ELSE SubSeq(s, 1, CHOOSE i \in kept : \A j \in kept : i >= j)

\* str.strip()
Strip(s) == RStrip(LStrip(s))

\* The least index >= p at which s holds character c, or 0.
RECURSIVE IndexOfChar(_, _, _)
IndexOfChar(s, c, p) ==
    IF p > Len(s) THEN 0
    ELSE IF Ch(s, p) = c THEN p
    ELSE IndexOfChar(s, c, p + 1)

\* The characters of s, as a set.
CharsOf(s) == {Ch(s, i) : i \in 1..Len(s)}

UpperLetters == "ABCDEFGHIJKLMNOPQRSTUVWXYZ"
LowerLetters == "abcdefghijklmnopqrstuvwxyz"

\* [A-Z]
IsUpper(c) == c \in CharsOf(UpperLetters)

\* \w, for the characters of the model
IsWordChar(c) == c \in CharsOf(UpperLetters \o LowerLetters \o "0123456789_")

\* The character re.IGNORECASE and str.lower() compare in place of c.
LowerChar(c) ==
    IF IsUpper(c)
    THEN Ch(LowerLetters, CHOOSE i \in 1..Len(UpperLetters) : Ch(UpperLetters, i) = c)
    ELSE c

\* str.lower()
RECURSIVE Lower(_)
Lower(s) ==
    IF Len(s) = 0 THEN ""
    ELSE LowerChar(Ch(s, 1)) \o Lower(SubSeq(s, 2, Len(s)))

\* The least index >= p at which `sub` starts in s, or 0 (str.find).
Find(s, sub, p) ==
    LET hits == {q \in p..(Len(s) + 1) : StartsWithAt(s, q, sub)}
    IN IF hits = {} THEN 0 ELSE CHOOSE q \in hits : \A r \in hits : q <= r

\* `sub in s`
Contains(s, sub) == Find(s, sub, 1) > 0

\* The index of the first character at or after p that is not whitespace.
RECURSIVE SkipSpaces(_, _)
SkipSpaces(s, p) ==
    IF p <= Len(s) /\ IsSpace(Ch(s, p)) THEN SkipSpaces(s, p + 1) ELSE p

\* str.split(): the maximal runs of characters that are not whitespace.
RECURSIVE SplitFrom(_, _)
SplitFrom(s, p) ==
    LET b == SkipSpaces(s, p)
        sp == IndexOfChar(s, " ", b)
        tb == IndexOfChar(s, "\t", b)
        e == IF sp = 0 /\ tb = 0 THEN Len(s) + 1
             ELSE IF sp = 0 THEN tb
             ELSE IF tb = 0 THEN sp
             ELSE IF sp < tb THEN sp ELSE tb
    IN IF b > Len(s) THEN <<>>
       ELSE <<SubSeq(s, b, e - 1)>> \o SplitFrom(s, e)

Split(s) == SplitFrom(s, 1)

\* ' '.join(words)
RECURSIVE Join(_)
Join(words) ==
    IF Len(words) = 0 THEN ""
    ELSE IF Len(words) = 1 THEN words[1]
    ELSE words[1] \o " " \o Join(Tail(words))

\* reversed(words)
RECURSIVE Reversed(_)
Reversed(words) ==
    IF Len(words) = 0 THEN <<>>
    ELSE Append(Reversed(Tail(words)), Head(words))

\* \b at the gap before index p: exactly one of the characters beside the gap
\* is a word character.
WordBoundary(s, p) ==
    LET before == p > 1 /\ p - 1 <= Len(s) /\ IsWordChar(Ch(s, p - 1))
        after == p >= 1 /\ p <= Len(s) /\ IsWordChar(Ch(s, p))
    IN before # after

-----------------------------------------------------------------------------
(* The document loader: read_latex_recursive.                              *)

ENTRY_FILE == "main.tex"
ROOT_DIR == "./sample_project"

\* Path(ROOT_DIR) / filename
PathOf(filename) == ROOT_DIR \o "/" \o filename

\* The paths a project of the model may hold.
Paths == {PathOf("main.tex"), PathOf("a.tex"), PathOf("b.tex")}

\* The lines a file of the model may hold.
LoaderCorpus ==
    { "plain text",
      " \\input{a}\\include{b} x",
      "\\include{b.tex}",
      "\\input{ main }",
      "\\input{a.tex} \\input{a" }

\* One match of \\(?:input|include)\{([^}]+)\} starting exactly at p:
\* [ok, group, next], next being the index after the match.
IncludeMatchAt(s, p) ==
    LET pre == IF StartsWithAt(s, p, "\\input{") THEN 7
               ELSE IF StartsWithAt(s, p, "\\include{") THEN 9
               ELSE 0
        q == p + pre
        r == IndexOfChar(s, "}", q)
    IN IF pre > 0 /\ r > q
       THEN [ok |-> TRUE, group |-> SubSeq(s, q, r - 1), next |-> r + 1]
       ELSE [ok |-> FALSE, group |-> "", next |-> p + 1]

\* pattern.findall(line), scanning from index p.
RECURSIVE FindIncludesFrom(_, _)
FindIncludesFrom(s, p) ==
    IF p > Len(s) THEN <<>>
    ELSE LET m == IncludeMatchAt(s, p)
         IN IF m.ok THEN <<m.group>> \o FindIncludesFrom(s, m.next)
            ELSE FindIncludesFrom(s, p + 1)

FindIncludes(line) == FindIncludesFrom(line, 1)

\* included = match.strip(), with ".tex" appended when it is missing.
Included(match) ==
    LET included == Strip(match)
    IN IF EndsWith(included, ".tex") THEN included ELSE included \o ".tex"

\* The matches, the resolved paths and the stripped text of the lines of the
\* model, computed once.
LineIncludes == [l \in LoaderCorpus |-> FindIncludes(l)]

LineStripped == [l \in LoaderCorpus |-> Strip(l)]

IncludedPath ==
    [m \in UNION {{LineIncludes[l][j] : j \in 1..Len(LineIncludes[l])} : l \in LoaderCorpus}
        |-> PathOf(Included(m))]

\* Skip without the visited-set test.
SkipMissingOnly(path, seenSet) == path \notin present

\* The guard of read_latex_recursive: the call returns [] at once.
Skip(path, seenSet) == path \in seenSet \/ path \notin present

\* seen.add(path) left out.
SeenAddNothing(seenSet, path) == seenSet

\* seen.add(path)
SeenAdd(seenSet, path) == seenSet \cup {path}

\* What readlines() may return for `path`: what it returned before, or for a
\* file read for the first time any lines within the budget.
Contents(path) ==
    IF path \in opened THEN {files[path]}
    ELSE UNION {[1..k -> LoaderCorpus] : k \in 0..budget}

\* The budget left after `lines` were read from `path`.
Spend(path, lines) == IF path \in opened THEN budget ELSE budget - Len(lines)

\* The frame of a call that passed the guard and read its lines.
NewFrame(path, lines) ==
    [path |-> path, lines |-> lines, i |-> 0, pending |-> <<>>, entries |-> <<>>]

\* entries.append((path, i, line.strip()))
AppendRecord(list, path, i, line) == Append(list, <<path, i, LineStripped[line]>>)

\* The returned list put in front of the caller's own records.
ExtendInFront(list, returned) == returned \o list

\* entries += <the list a recursive call returned>
Extend(list, returned) == list \o returned

Top == stack[Len(stack)]

\* The locals of extract_defined_acronyms and scan_acronyms before they run.
ScanLocalsInit ==
    /\ acronym_defs = <<>>
    /\ xi = 0
    /\ document_started = FALSE
    /\ content_entries = <<>>
    /\ bi = 0
    /\ used_full = <<>>
    /\ used_short = <<>>
    /\ uk = 0
    /\ undefined_counts = <<>>
    /\ undefined_full_forms = <<>>
    /\ ui = 0
    /\ undefined = <<>>
    /\ retained = FALSE
    /\ inconsistent_usage = <<>>
    /\ checked = {}

\* The locals of extract_sentence_containing_text before it runs.
SentenceLocalsInit ==
    /\ text = ""
    /\ target_text = ""
    /\ target_pos = 0
    /\ sentence_start = 0
    /\ sentence_end = 0
    /\ sentence = ""
    /\ si = 0
    /\ best_start = 0
    /\ best_end = 0

SetTop(frame) == [stack EXCEPT ![Len(stack)] = frame]

Init ==
    /\ present \in SUBSET Paths
    /\ files = [p \in Paths |-> <<>>]
    /\ opened = {}
    /\ budget = MaxLines
    /\ seen = {}
    /\ stack = <<>>
    /\ entries = <<>>
    /\ pc = "main"
    /\ ScanLocalsInit
    /\ SentenceLocalsInit

\* main: entries = read_latex_recursive(ENTRY_FILE), up to the guard and the
\* reading of the entry file's lines.
CallEntry ==
    /\ pc = "main"
    /\ LET path == PathOf(ENTRY_FILE)
       IN IF Skip(path, {})
          THEN /\ entries' = <<>>
               /\ pc' = "loaded"
               /\ UNCHANGED <<files, opened, budget, seen, stack>>
          ELSE \E lines \in Contents(path) :
                  /\ seen' = SeenAdd({}, path)
                  /\ files' = [files EXCEPT ![path] = lines]
                  /\ opened' = opened \cup {path}
                  /\ budget' = Spend(path, lines)
                  /\ stack' = <<NewFrame(path, lines)>>
                  /\ pc' = "loading"
                  /\ UNCHANGED entries
    /\ UNCHANGED present
    /\ UNCHANGED <<scanVars, sentenceVars>>

\* The frame after one turn of `for i, line in enumerate(lines, start=1)`:
\* the line's record is appended and its inclusion directives are found.
ReadFrame(f) ==
    [f EXCEPT
        !.i = f.i + 1,
        !.entries = AppendRecord(f.entries, f.path, f.i + 1, f.lines[f.i + 1]),
        !.pending = LineIncludes[f.lines[f.i + 1]]]

\* The innermost call reads its next line.
ReadLine ==
    /\ pc = "loading"
    /\ Top.pending = <<>>
    /\ Top.i < Len(Top.lines)
    /\ stack' = SetTop(ReadFrame(Top))
    /\ UNCHANGED <<present, files, opened, budget, seen, entries, pc>>
    /\ UNCHANGED <<scanVars, sentenceVars>>

\* One turn of `for match in pattern.findall(line)`: the recursive call, up to
\* its guard and the reading of the included file's lines.
Include ==
    /\ pc = "loading"
    /\ Top.pending # <<>>
    /\ LET path == IncludedPath[Head(Top.pending)]
       IN IF Skip(path, seen)
          THEN /\ stack' = SetTop([Top EXCEPT
                               !.entries = Extend(Top.entries, <<>>),
                               !.pending = Tail(Top.pending)])
               /\ UNCHANGED <<files, opened, budget, seen, pc>>
          ELSE IF Len(stack) >= MaxDepth
          THEN \* RecursionError, which nothing catches
               /\ pc' = "failed"
               /\ UNCHANGED <<files, opened, budget, seen, stack>>
          ELSE \E lines \in Contents(path) :
                  /\ seen' = SeenAdd(seen, path)
                  /\ files' = [files EXCEPT ![path] = lines]
                  /\ opened' = opened \cup {path}
                  /\ budget' = Spend(path, lines)
                  /\ stack' = Append(stack, NewFrame(path, lines))
                  /\ UNCHANGED pc
    /\ UNCHANGED <<present, entries>>
    /\ UNCHANGED <<scanVars, sentenceVars>>

\* `return entries` of a call that read its lines: the caller extends its own
\* list with the returned one, and main receives the outermost call's list.
Return ==
    /\ pc = "loading"
    /\ Top.pending = <<>>
    /\ Top.i = Len(Top.lines)
    /\ IF Len(stack) = 1
       THEN /\ entries' = Top.entries
            /\ stack' = <<>>
            /\ pc' = "loaded"
       ELSE LET caller == stack[Len(stack) - 1]
            IN /\ stack' = [SubSeq(stack, 1, Len(stack) - 1) EXCEPT
                               ![Len(stack) - 1] =
                                   [caller EXCEPT
                                       !.entries = Extend(caller.entries, Top.entries),
                                       !.pending = Tail(caller.pending)]]
               /\ UNCHANGED <<entries, pc>>
    /\ UNCHANGED <<present, files, opened, budget, seen>>
    /\ UNCHANGED <<scanVars, sentenceVars>>

\* The rest of main: the definitions are extracted, the records scanned and
\* the report written, whatever the load returned.
Analyse ==
    /\ pc = "loaded"
    /\ pc' = "done"
    /\ UNCHANGED <<present, files, opened, budget, seen, stack, entries>>
    /\ UNCHANGED <<scanVars, sentenceVars>>

Next == CallEntry \/ ReadLine \/ Include \/ Return \/ Analyse

Spec == Init /\ [][Next]_vars

\* The interpreter runs the single thread of the program until it ends.
FairSpec == Spec /\ WF_vars(Next)

-----------------------------------------------------------------------------
(* The regular expressions of extract_defined_acronyms and scan_acronyms.  *)

\* \{([^\}]+)\} starting exactly at p: [ok, text, next].
BraceGroupAt(s, p) ==
    LET r == IF p >= 1 /\ p <= Len(s) /\ Ch(s, p) = "{"
             THEN IndexOfChar(s, "}", p + 1)
             ELSE 0
    IN IF r > p + 1
       THEN [ok |-> TRUE, text |-> SubSeq(s, p + 1, r - 1), next |-> r + 1]
       ELSE [ok |-> FALSE, text |-> "", next |-> 0]

\* \\newacronym\{([^\}]+)\}\{([^\}]+)\}\{([^\}]+)\} starting exactly at p,
\* with the groups as extract_defined_acronyms stores them.
NewAcronymAt(s, p) ==
    LET pre == "\\newacronym"
        g1 == BraceGroupAt(s, p + Len(pre))
        g2 == BraceGroupAt(s, g1.next)
        g3 == BraceGroupAt(s, g2.next)
    IN IF StartsWithAt(s, p, pre) /\ g1.ok /\ g2.ok /\ g3.ok
       THEN [ok |-> TRUE, key |-> g1.text,
             short |-> Strip(g2.text), full |-> Strip(g3.text)]
       ELSE [ok |-> FALSE, key |-> "", short |-> "", full |-> ""]

\* pattern.search(line): the leftmost match, from index p on.
RECURSIVE NewAcronymSearchFrom(_, _)
NewAcronymSearchFrom(s, p) ==
    IF p > Len(s) THEN NewAcronymAt(s, p)
    ELSE IF NewAcronymAt(s, p).ok THEN NewAcronymAt(s, p)
    ELSE NewAcronymSearchFrom(s, p + 1)

NewAcronymSearch(line) == NewAcronymSearchFrom(line, 1)

\* The document-start marker.
BeginDocument == "\\begin{document}"

\* The number of consecutive characters of [A-Z] from index p on.
RECURSIVE UpperRun(_, _)
UpperRun(s, p) ==
    IF p <= Len(s) /\ IsUpper(Ch(s, p)) THEN 1 + UpperRun(s, p + 1) ELSE 0

\* \(([A-Z]{2,10})\) starting exactly at p: [ok, token, next].
ParenTokenAt(s, p) ==
    LET n == UpperRun(s, p + 1)
    IN IF /\ Ch(s, p) = "("
          /\ n >= 2 /\ n <= 10
          /\ p + 1 + n <= Len(s)
          /\ Ch(s, p + 1 + n) = ")"
       THEN [ok |-> TRUE, token |-> SubSeq(s, p + 1, p + n), next |-> p + n + 2]
       ELSE [ok |-> FALSE, token |-> "", next |-> p + 1]

\* pattern.findall(line) of the undefined-acronym scan, from index p on.
RECURSIVE ParenTokensFrom(_, _)
ParenTokensFrom(s, p) ==
    IF p > Len(s) THEN <<>>
    ELSE LET m == ParenTokenAt(s, p)
         IN IF m.ok THEN <<m.token>> \o ParenTokensFrom(s, m.next)
            ELSE ParenTokensFrom(s, p + 1)

ParenTokens(line) == ParenTokensFrom(line, 1)

\* Two texts compared as they are, case included.
SameTextExact(a, b) == a = b

\* Two texts that re.IGNORECASE takes for the same.
SameText(a, b) == Lower(a) = Lower(b)

\* \b<form>s?\b with re.IGNORECASE, matching from exactly p.
FormMatchAt(s, p, form) ==
    LET e == p + Len(form)
    IN /\ e - 1 <= Len(s)
       /\ WordBoundary(s, p)
       /\ SameText(SubSeq(s, p, e - 1), form)
       /\ \/ /\ e <= Len(s)
             /\ LowerChar(Ch(s, e)) = "s"
             /\ WordBoundary(s, e + 1)
          \/ WordBoundary(s, e)

\* full_pattern.search(line), short_pattern.search(line): is there a match.
RECURSIVE FormSearchFrom(_, _, _)
FormSearchFrom(s, form, p) ==
    IF p > Len(s) + 1 THEN FALSE
    ELSE IF FormMatchAt(s, p, form) THEN TRUE
    ELSE FormSearchFrom(s, form, p + 1)

FormSearch(line, form) == FormSearchFrom(line, form, 1)

\* The lookahead left out: nothing counts as followed by the token.
NeverFollowed(s, e, acronym) == FALSE

\* \s*\(<acronym>\) with re.IGNORECASE, matching from exactly e.
FollowedByToken(s, e, acronym) ==
    LET q == SkipSpaces(s, e)
        tok == "(" \o acronym \o ")"
    IN /\ q + Len(tok) - 1 <= Len(s)
       /\ SameText(SubSeq(s, q, q + Len(tok) - 1), tok)

\* \b<full_form>\b(?!\s*\(<acronym>\)) with re.IGNORECASE, matching from p.
StandaloneAt(s, p, full_form, acronym) ==
    LET e == p + Len(full_form)
    IN /\ e - 1 <= Len(s)
       /\ WordBoundary(s, p)
       /\ SameText(SubSeq(s, p, e - 1), full_form)
       /\ WordBoundary(s, e)
       /\ ~FollowedByToken(s, e, acronym)

\* re.search(standalone_pattern, line, re.IGNORECASE): is there a match.
RECURSIVE StandaloneSearchFrom(_, _, _, _)
StandaloneSearchFrom(s, full_form, acronym, p) ==
    IF p > Len(s) + 1 THEN FALSE
    ELSE IF StandaloneAt(s, p, full_form, acronym) THEN TRUE
    ELSE StandaloneSearchFrom(s, full_form, acronym, p + 1)

StandaloneSearch(line, full_form, acronym) ==
    StandaloneSearchFrom(line, full_form, acronym, 1)

\* Roman numerals to exclude
roman_numerals ==
    {"I", "II", "III", "IV", "V", "VI", "VII", "VIII", "IX", "X",
     "XI", "XII", "XIII", "XIV", "XV", "XVI", "XVII", "XVIII", "XIX", "XX"}

\* The common connecting words of the expansion recovery.
ConnectingWords ==
    {"of", "and", "for", "the", "&", "to", "in", "on", "with", "at", "by",
     "from", "de"}

\* word[0].isupper() or word.lower() in <the connecting words>
IsIncludedWord(word) ==
    IsUpper(Ch(word, 1)) \/ Lower(word) \in ConnectingWords

\* The leading words of `words` up to the first that is not included.
RECURSIVE TakeIncluded(_)
TakeIncluded(words) ==
    IF Len(words) = 0 THEN <<>>
    ELSE IF IsIncludedWord(Head(words))
    THEN <<Head(words)>> \o TakeIncluded(Tail(words))
    ELSE <<>>

\* words[-5:]
LastFive(words) ==
    IF Len(words) <= 5 THEN words ELSE SubSeq(words, Len(words) - 4, Len(words))

\* The full form recovered for one occurrence of (acronym) in line:
\* [ok, full_form], ok when a full form is added to undefined_full_forms.
RecoverFullForm(line, acronym) ==
    LET start == Find(line, "(" \o acronym \o ")", 1)
        text_before == Strip(SubSeq(line, 1, start - 1))
        words == Split(text_before)
        candidate_words == LastFive(words)
        full_form_words == TakeIncluded(Reversed(candidate_words))
        capital_words == SelectSeq(full_form_words, LAMBDA w : IsUpper(Ch(w, 1)))
    IN IF /\ start > 0
          /\ Len(words) > 0
          /\ Len(full_form_words) > 0
          /\ Len(capital_words) > 0
          /\ Len(full_form_words) <= 6
       THEN [ok |-> TRUE, full_form |-> Join(Reversed(full_form_words))]
       ELSE [ok |-> FALSE, full_form |-> ""]

-----------------------------------------------------------------------------
(* Python's dict and defaultdict(list): the <<key, value>> pairs in        *)
(* insertion order.                                                        *)

Keys(d) == {d[i][1] : i \in 1..Len(d)}

Get(d, k) == d[CHOOSE i \in 1..Len(d) : d[i][1] = k][2]

\* d.setdefault(k, v): an item already held is kept.
PutIfAbsent(d, k, v) ==
    IF k \in Keys(d) THEN d ELSE Append(d, <<k, v>>)

\* d[k] = v
Put(d, k, v) ==
    IF k \in Keys(d)
    THEN [i \in 1..Len(d) |-> IF d[i][1] = k THEN <<k, v>> ELSE d[i]]
    ELSE Append(d, <<k, v>>)

\* d[k].append(x) on a defaultdict(list)
AppendTo(d, k, x) ==
    IF k \in Keys(d) THEN Put(d, k, Append(Get(d, k), x)) ELSE Put(d, k, <<x>>)

\* d[k].append(x) for every x of list, in order
RECURSIVE AppendAllTo(_, _, _)
AppendAllTo(d, k, list) ==
    IF Len(list) = 0 THEN d
    ELSE AppendAllTo(AppendTo(d, k, Head(list)), k, Tail(list))

-----------------------------------------------------------------------------
(* The records handed to extract_defined_acronyms and scan_acronyms.       *)

\* The lines a record of the model may hold, as the loader stores them.
ScanCorpus ==
    { "\\newacronym{vae}{VAE}{Variational Autoencoder}",
      "\\newacronym{vae}{ VA }{World Model}\\newacronym{ai}{AI}{Artificial Intelligence}",
      "\\begin{document}",
      "\\begin{document} Variational Autoencoders (VAE) (II)",
      "see the Austrian Institute of Technology (AIT) developed",
      "the austrian institute of technology (II) (AIT)",
      "Variational Autoencoder (VAE)",
      "a variational autoencoder, VAEs (VAE) (II)" }

\* What the regular expressions find in each line of the model, computed once.
DefOf == [l \in ScanCorpus |-> NewAcronymSearch(l)]

HasMarker == [l \in ScanCorpus |-> Contains(l, BeginDocument)]

TokensOf == [l \in ScanCorpus |-> ParenTokens(l)]

StrippedOf == [l \in ScanCorpus |-> Strip(l)]

CorpusTokens == UNION {{TokensOf[l][j] : j \in 1..Len(TokensOf[l])} : l \in ScanCorpus}

CorpusForms ==
    UNION {{DefOf[l].short, DefOf[l].full} : l \in {m \in ScanCorpus : DefOf[m].ok}}

RecoveredOf == [l \in ScanCorpus |-> [t \in CorpusTokens |-> RecoverFullForm(l, t)]]

CorpusFullForms ==
    {RecoveredOf[l][t].full_form : <<l, t>> \in
        {lt \in ScanCorpus \X CorpusTokens : RecoveredOf[lt[1]][lt[2]].ok}}

UsesForm == [l \in ScanCorpus |-> [f \in CorpusForms |-> FormSearch(l, f)]]

Standalone ==
    [l \in ScanCorpus |->
        [f \in CorpusFullForms |-> [t \in CorpusTokens |-> StandaloneSearch(l, f, t)]]]

-----------------------------------------------------------------------------
(* extract_defined_acronyms and scan_acronyms, run by main on the records. *)

\* The record sequences of the model: the lines of one file, numbered from 1.
RecordsOfLines(lines) == [k \in 1..Len(lines) |-> <<PathOf(ENTRY_FILE), k, lines[k]>>]

ScanInit ==
    /\ present = {PathOf(ENTRY_FILE)}
    /\ files = [p \in Paths |-> <<>>]
    /\ opened = {}
    /\ budget = 0
    /\ seen = {}
    /\ stack = <<>>
    /\ \E n \in 0..MaxRecords : \E lines \in [1..n -> ScanCorpus] :
           entries = RecordsOfLines(lines)
    /\ pc = "extract"
    /\ ScanLocalsInit
    /\ SentenceLocalsInit

\* acronym_defs[key] = {"short": ..., "full": ..., "file": path, "line": line_no}
Defined(defs, rec) ==
    LET m == DefOf[rec[3]]
    IN IF m.ok
       THEN Put(defs, m.key, [short |-> m.short, full |-> m.full,
                              file |-> rec[1], line |-> rec[2]])
       ELSE defs

\* One turn of the loop of extract_defined_acronyms.
ExtractLine ==
    /\ pc = "extract"
    /\ xi < Len(entries)
    /\ acronym_defs' = Defined(acronym_defs, entries[xi + 1])
    /\ xi' = xi + 1
    /\ UNCHANGED <<sentenceVars, loaderVars, entries, pc,
                   document_started, content_entries,
                   bi, used_full, used_short, uk, undefined_counts,
                   undefined_full_forms, ui, undefined, retained,
                   inconsistent_usage, checked>>

\* extract_defined_acronyms returns and main calls scan_acronyms.
ExtractReturn ==
    /\ pc = "extract"
    /\ xi = Len(entries)
    /\ pc' = "scan"
    /\ UNCHANGED <<sentenceVars, loaderVars, entries, scanVars>>

\* The body is taken to start at the first record, marker or not.
StartedAlways(started, line) == TRUE

\* document_started after a record with this line has been looked at.
Started(started, line) == started \/ HasMarker[line]

\* One turn of the loop that collects content_entries.
ContentLine ==
    /\ pc = "scan"
    /\ bi < Len(entries)
    /\ document_started' = Started(document_started, entries[bi + 1][3])
    /\ content_entries' =
           IF document_started' THEN Append(content_entries, entries[bi + 1])
           ELSE content_entries
    /\ bi' = bi + 1
    /\ UNCHANGED <<sentenceVars, loaderVars, entries, pc,
                   acronym_defs, xi, used_full,
                   used_short, uk, undefined_counts, undefined_full_forms, ui,
                   undefined, retained, inconsistent_usage, checked>>

\* The records of `content` whose line the pattern of `form` is found in.
Using(content, form) == SelectSeq(content, LAMBDA rec : UsesForm[rec[3]][form])

\* One turn of `for key, data in acronym_defs.items()`: every body record is
\* searched for the long form and for the short form of one definition.
UsageKey ==
    /\ pc = "scan"
    /\ bi = Len(entries)
    /\ uk < Len(acronym_defs)
    /\ LET key == acronym_defs[uk + 1][1]
           data == acronym_defs[uk + 1][2]
       IN /\ used_full' = AppendAllTo(used_full, key, Using(content_entries, data.full))
          /\ used_short' = AppendAllTo(used_short, key, Using(content_entries, data.short))
    /\ uk' = uk + 1
    /\ UNCHANGED <<sentenceVars, loaderVars, entries, pc,
                   acronym_defs, xi, document_started,
                   content_entries, bi, undefined_counts, undefined_full_forms,
                   ui, undefined, retained, inconsistent_usage, checked>>

\* {v["short"] for v in acronym_defs.values()}
defined_shorts(defs) == {defs[i][2].short : i \in 1..Len(defs)}

\* Only the Roman numerals are left out.
ExcludedRomanOnly(acronym, defs) == acronym \in roman_numerals

\* A parenthesized token that is not recorded.
Excluded(acronym, defs) ==
    acronym \in defined_shorts(defs) \/ acronym \in roman_numerals

\* undefined_full_forms[acronym].add(full_form), the set created when missing
AddFullForm(forms, acronym, full_form) ==
    IF acronym \in Keys(forms)
    THEN Put(forms, acronym, Get(forms, acronym) \cup {full_form})
    ELSE Put(forms, acronym, {full_form})

\* The matches of one body record, left to right: [counts, forms] after them.
RECURSIVE RecordTokens(_, _, _, _)
RecordTokens(tokens, rec, defs, st) ==
    IF Len(tokens) = 0 THEN st
    ELSE LET acronym == Strip(Head(tokens))
             found == RecoveredOf[rec[3]][acronym]
             counted == AppendTo(st.counts, acronym,
                                 <<rec[1], rec[2], StrippedOf[rec[3]]>>)
         IN IF Excluded(acronym, defs)
            THEN RecordTokens(Tail(tokens), rec, defs, st)
            ELSE RecordTokens(Tail(tokens), rec, defs,
                     [counts |-> counted,
                      forms |-> IF found.ok
                                THEN AddFullForm(st.forms, acronym, found.full_form)
                                ELSE st.forms])

\* One turn of the loop that looks for parenthesized tokens in the body.
UndefinedLine ==
    /\ pc = "scan"
    /\ bi = Len(entries)
    /\ uk = Len(acronym_defs)
    /\ ui < Len(content_entries)
    /\ LET rec == content_entries[ui + 1]
           st == RecordTokens(TokensOf[rec[3]], rec, acronym_defs,
                     [counts |-> undefined_counts, forms |-> undefined_full_forms])
       IN /\ undefined_counts' = st.counts
          /\ undefined_full_forms' = st.forms
    /\ ui' = ui + 1
    /\ UNCHANGED <<sentenceVars, loaderVars, entries, pc,
                   acronym_defs, xi, document_started,
                   content_entries, bi, used_full, used_short, uk, undefined,
                   retained, inconsistent_usage, checked>>

\* Every recorded token is reported.
ReportedAlways(occurrences) == Len(occurrences) >= 1

\* Only report acronyms that appear 2 or more times
Reported(occurrences) == Len(occurrences) >= 2

\* (acronym, path, line_no, line) for each occurrence
WithToken(acronym, occurrences) ==
    [k \in 1..Len(occurrences) |->
        <<acronym, occurrences[k][1], occurrences[k][2], occurrences[k][3]>>]

\* The loop over undefined_counts.items(), from its i-th pair on.
RECURSIVE Retain(_, _)
Retain(counts, i) ==
    IF i > Len(counts) THEN <<>>
    ELSE (IF Reported(counts[i][2]) THEN WithToken(counts[i][1], counts[i][2])
          ELSE <<>>) \o Retain(counts, i + 1)

\* The noise filter: the loop that fills `undefined`.
RetainRepeated ==
    /\ pc = "scan"
    /\ bi = Len(entries)
    /\ uk = Len(acronym_defs)
    /\ ui = Len(content_entries)
    /\ ~retained
    /\ undefined' = Retain(undefined_counts, 1)
    /\ retained' = TRUE
    /\ UNCHANGED <<sentenceVars, loaderVars, entries, pc,
                   acronym_defs, xi, document_started,
                   content_entries, bi, used_full, used_short, uk,
                   undefined_counts, undefined_full_forms, ui,
                   inconsistent_usage, checked>>

\* The (acronym, full_form) pairs the last loop has still to search for.
Unchecked ==
    {af \in (Keys(undefined_full_forms) \X CorpusFullForms) :
        af[2] \in Get(undefined_full_forms, af[1])} \ checked

\* (path, line_no, line.strip(), full_form) for the body records in which the
\* standalone pattern of full_form is found.
StandaloneUses(content, acronym, full_form) ==
    LET hits == SelectSeq(content, LAMBDA rec : Standalone[rec[3]][full_form][acronym])
    IN [k \in 1..Len(hits) |->
           <<hits[k][1], hits[k][2], StrippedOf[hits[k][3]], full_form>>]

\* The first acronym of undefined_full_forms.items() not yet gone through.
NextAcronym ==
    undefined_full_forms[
        CHOOSE i \in 1..Len(undefined_full_forms) :
            /\ \E af \in Unchecked : af[1] = undefined_full_forms[i][1]
            /\ \A j \in 1..(i - 1) :
                   \A af \in Unchecked : af[1] # undefined_full_forms[j][1]][1]

\* One turn of `for full_form in full_forms`: the body is searched for one
\* recovered long form of one acronym. A set is gone through in any order.
InconsistentForm ==
    /\ pc = "scan"
    /\ retained
    /\ Unchecked # {}
    /\ \E af \in Unchecked :
          /\ af[1] = NextAcronym
          /\ inconsistent_usage' =
                 AppendAllTo(inconsistent_usage, af[1],
                             StandaloneUses(content_entries, af[1], af[2]))
          /\ checked' = checked \cup {af}
    /\ UNCHANGED <<sentenceVars, loaderVars, entries, pc,
                   acronym_defs, xi, document_started,
                   content_entries, bi, used_full, used_short, uk,
                   undefined_counts, undefined_full_forms, ui, undefined,
                   retained>>

\* scan_acronyms returns its report.
ScanReturn ==
    /\ pc = "scan"
    /\ retained
    /\ Unchecked = {}
    /\ pc' = "scanned"
    /\ UNCHANGED <<sentenceVars, loaderVars, entries, scanVars>>

ScanNext ==
    \/ ExtractLine
    \/ ExtractReturn
    \/ ContentLine
    \/ UsageKey
    \/ UndefinedLine
    \/ RetainRepeated
    \/ InconsistentForm
    \/ ScanReturn

ScanSpec == ScanInit /\ [][ScanNext]_vars

-----------------------------------------------------------------------------
(* extract_sentence_containing_text. Indices are Python's, counted from 0. *)

Min(a, b) == IF a <= b THEN a ELSE b

Max(a, b) == IF a >= b THEN a ELSE b

\* s[a:b] for 0 <= a and 0 <= b
Slice(s, a, b) ==
    IF a >= Min(b, Len(s)) THEN "" ELSE SubSeq(s, a + 1, Min(b, Len(s)))

\* s[i] for 0 <= i < len(s)
At(s, i) == SubSeq(s, i + 1, i + 1)

\* c.isdigit()
IsDigit(c) == c \in CharsOf("0123456789")

\* c.islower()
IsLower(c) == c \in CharsOf(LowerLetters)

\* s repeated n times, as the long lines of the model are written.
RECURSIVE Repeat(_, _)
Repeat(s, n) == IF n = 0 THEN "" ELSE s \o Repeat(s, n - 1)

\* The abbreviations after which a period does not end a sentence.
abbreviations ==
    <<"e.g", "i.e", "etc", "vs", "cf", "al", "fig", "eq", "sec", "ch", "vol",
      "ed", "pp", "no", "mr", "mrs", "dr", "prof", "inc", "ltd", "corp">>

\* No abbreviation is looked for.
AbbreviatedNever(before_context) == FALSE

\* `for abbr in abbreviations: if before_context.endswith(abbr)`
Abbreviated(before_context) ==
    \E k \in 1..Len(abbreviations) : EndsWith(before_context, abbreviations[k])

\* re.search(r'\S+@\S+$', before_context)
EmailBefore(before_context) ==
    \E j \in 2..(Len(before_context) - 1) :
        /\ Ch(before_context, j) = "@"
        /\ ~IsSpace(Ch(before_context, j - 1))
        /\ \A k \in (j + 1)..Len(before_context) : ~IsSpace(Ch(before_context, k))

\* is_sentence_boundary(text, pos)
is_sentence_boundary(t, pos) ==
    IF pos >= Len(t) \/ At(t, pos) \notin {".", "!", "?"}
    THEN FALSE
    ELSE LET before_context == Lower(Slice(t, Max(0, pos - 10), pos))
             after_context == IF pos + 1 < Len(t) THEN Slice(t, pos + 1, pos + 5)
                              ELSE ""
         IN /\ ~Abbreviated(before_context)
            /\ ~(/\ pos > 0 /\ pos < Len(t) - 1
                 /\ EmailBefore(before_context)
                 /\ ~StartsWithAt(after_context, 1, " "))
            /\ ~(Contains(before_context, "http") \/ Contains(before_context, "www"))
            /\ ~(/\ pos > 0 /\ pos < Len(t) - 1
                 /\ IsDigit(At(t, pos - 1)) /\ IsDigit(At(t, pos + 1)))
            /\ ~(after_context # "" /\ IsLower(At(after_context, 0)))

\* The lines and targets handed to extract_sentence_containing_text.
SentenceCorpus ==
    { "Dr. Smith uses e.g. models. The VAE (VAE) is good.",
      "",
      "Short. The (VAE)",
      "Smith et al. Use the VAE (VAE) at 3.14 Hz, cf. Fig. 2 or bob@x.org.Or www.x.org. Or so. or not! Yes (AIT).",
      Repeat("the model is trained on samples, ", 7) \o "and the VAE (VAE) is used; "
          \o Repeat("it is tested on more samples ", 8) \o "in the end.",
      Repeat(Repeat(" ", 15), 14) \o "x" }

SentenceTargets == {"(VAE)", "(AIT)", " "}

\* is_sentence_boundary at every index of every line, computed once.
BoundaryAt ==
    [t \in SentenceCorpus |-> [p \in 0..Len(t) |-> is_sentence_boundary(t, p)]]

SentenceInit ==
    /\ present = {}
    /\ files = [p \in Paths |-> <<>>]
    /\ opened = {}
    /\ budget = 0
    /\ seen = {}
    /\ stack = <<>>
    /\ entries = <<>>
    /\ ScanLocalsInit
    /\ text \in SentenceCorpus
    /\ target_text \in SentenceTargets
    /\ target_pos = 0
    /\ sentence_start = 0
    /\ sentence_end = 0
    /\ sentence = ""
    /\ si = 0
    /\ best_start = 0
    /\ best_end = 0
    /\ pc = "find"

\* target_pos = text.find(target_text), and the return of a line without it.
FindTarget ==
    /\ pc = "find"
    /\ target_pos' = Find(text, target_text, 1) - 1
    /\ IF target_pos' < 0
       THEN /\ sentence' = Strip(text)
            /\ pc' = "returned"
            /\ UNCHANGED si
       ELSE /\ si' = target_pos' - 1
            /\ pc' = "backward"
            /\ UNCHANGED sentence
    /\ UNCHANGED <<text, target_text, sentence_start, sentence_end, best_start,
                   best_end, loaderVars, entries, scanVars>>

\* One turn of `for i in range(target_pos - 1, -1, -1)`.
SearchBackward ==
    /\ pc = "backward"
    /\ IF si >= 0 /\ ~BoundaryAt[text][si]
       THEN /\ si' = si - 1
            /\ UNCHANGED <<sentence_start, sentence_end, pc>>
       ELSE /\ sentence_start' = IF si >= 0 THEN si + 1 ELSE 0
            /\ sentence_end' = Len(text)
            /\ si' = target_pos
            /\ pc' = "forward"
    /\ UNCHANGED <<text, target_text, target_pos, sentence, best_start, best_end,
                   loaderVars, entries, scanVars>>

\* One turn of `for i in range(target_pos, len(text))`, and after the last one
\* sentence = text[sentence_start:sentence_end].strip().
SearchForward ==
    /\ pc = "forward"
    /\ IF si < Len(text) /\ ~BoundaryAt[text][si]
       THEN /\ si' = si + 1
            /\ UNCHANGED <<sentence_end, sentence, pc>>
       ELSE /\ sentence_end' = IF si < Len(text) THEN si + 1 ELSE sentence_end
            /\ sentence' = Strip(Slice(text, sentence_start, sentence_end'))
            /\ pc' = "length"
            /\ UNCHANGED si
    /\ UNCHANGED <<text, target_text, target_pos, sentence_start, best_start,
                   best_end, loaderVars, entries, scanVars>>

context_before == Max(0, target_pos - sentence_start - 100)

context_after == Min(Len(sentence), target_pos - sentence_start + 150)

\* `if len(sentence) > 400`
LengthCheck ==
    /\ pc = "length"
    /\ IF Len(sentence) > 400
       THEN /\ best_start' = context_before
            /\ best_end' = context_after
            /\ si' = context_before
            /\ pc' = "narrow_start"
       ELSE /\ pc' = "fallback"
            /\ UNCHANGED <<best_start, best_end, si>>
    /\ UNCHANGED <<text, target_text, target_pos, sentence_start, sentence_end,
                   sentence, loaderVars, entries, scanVars>>

break_chars == <<";", ",", ":", "--", " and ", " but ", " while ", " although ">>

\* The first break_char that stands in s at index i, or "".
BreakAt(s, i) ==
    LET found == {k \in 1..Len(break_chars) :
                     Slice(s, i, i + Len(break_chars[k])) = break_chars[k]}
    IN IF found = {} THEN ""
       ELSE break_chars[CHOOSE k \in found : \A j \in found : k <= j]

\* One turn of `for i in range(context_before, 0, -1)`.
NarrowStart ==
    /\ pc = "narrow_start"
    /\ IF si > 0
       THEN LET b == BreakAt(sentence, si)
                found == IF b # "" THEN si + Len(b) ELSE best_start
            IN /\ best_start' = found
               /\ IF found # context_before
                  THEN /\ si' = context_after
                       /\ pc' = "narrow_end"
                  ELSE /\ si' = si - 1
                       /\ UNCHANGED pc
       ELSE /\ si' = context_after
            /\ pc' = "narrow_end"
            /\ UNCHANGED best_start
    /\ UNCHANGED <<text, target_text, target_pos, sentence_start, sentence_end,
                   sentence, best_end, loaderVars, entries, scanVars>>

\* text[target_pos + 150:target_pos + 200].strip()
ExpandedAfterTarget(t, pos) == Strip(Slice(t, pos + 150, Min(Len(t), pos + 200)))

\* text[expanded_start:expanded_end].strip()
Expanded(t, pos) == Strip(Slice(t, Max(0, pos - 150), Min(Len(t), pos + 200)))

\* sentence[best_start:best_end].strip()
Focused(s, from, to) == Strip(Slice(s, from, to))

\* One turn of `for i in range(context_after, len(sentence))`, and after the
\* last one the focused segment replaces the sentence if it may.
NarrowEnd ==
    /\ pc = "narrow_end"
    /\ LET b == IF si < Len(sentence) THEN BreakAt(sentence, si) ELSE ""
           found == IF b # "" THEN si ELSE best_end
           focused_sentence == Focused(sentence, best_start, found)
       IN /\ best_end' = found
          /\ IF si < Len(sentence) /\ found = context_after
             THEN /\ si' = si + 1
                  /\ UNCHANGED <<sentence, pc>>
             ELSE /\ sentence' = IF /\ Contains(focused_sentence, target_text)
                                    /\ Len(focused_sentence) > 30
                                 THEN focused_sentence
                                 ELSE sentence
                  /\ pc' = "fallback"
                  /\ UNCHANGED si
    /\ UNCHANGED <<text, target_text, target_pos, sentence_start, sentence_end,
                   best_start, loaderVars, entries, scanVars>>

\* `if len(sentence) < 20 or target_text not in sentence`, and the return.
Fallback ==
    /\ pc = "fallback"
    /\ sentence' = IF Len(sentence) < 20 \/ ~Contains(sentence, target_text)
                   THEN Expanded(text, target_pos)
                   ELSE sentence
    /\ pc' = "returned"
    /\ UNCHANGED <<text, target_text, target_pos, sentence_start, sentence_end,
                   si, best_start, best_end, loaderVars, entries, scanVars>>

SentenceNext ==
    \/ FindTarget
    \/ SearchBackward
    \/ SearchForward
    \/ LengthCheck
    \/ NarrowStart
    \/ NarrowEnd
    \/ Fallback

SentenceSpec == SentenceInit /\ [][SentenceNext]_vars

-----------------------------------------------------------------------------
(* The document tree, as the file system holds it.                         *)

EntryPath == PathOf(ENTRY_FILE)

\* The paths the inclusion directives of an opened file point to.
Targets(p) ==
    UNION {{IncludedPath[LineIncludes[files[p][i]][j]] :
                j \in 1..Len(LineIncludes[files[p][i]])} : i \in 1..Len(files[p])}

\* The existing files reachable from the files of S by inclusion directives.
RECURSIVE Closure(_)
Closure(S) ==
    LET T == S \cup ((UNION {Targets(p) : p \in S}) \cap present)
    IN IF T = S THEN S ELSE Closure(T)

Reachable == Closure({EntryPath} \cap present)

\* A file that includes itself, directly or through other files.
OnCycle(p) == p \in Closure(Targets(p) \cap present)

\* The indices of the records of `list` for line i of file p.
RecordsOf(list, p, i) == {k \in 1..Len(list) : list[k][1] = p /\ list[k][2] = i}

\* Depth-first inclusion order, as a function of the document tree: the
\* records of `path` and of what it includes, given the paths visited so far.
RECURSIVE DepthFirst(_, _)
RECURSIVE DepthFirstLines(_, _, _)
RECURSIVE DepthFirstDirs(_, _)

DepthFirst(path, visited) ==
    IF path \in visited \/ path \notin present
    THEN [records |-> <<>>, visited |-> visited]
    ELSE DepthFirstLines(path, 1, visited \cup {path})

DepthFirstLines(path, i, visited) ==
    IF i > Len(files[path])
    THEN [records |-> <<>>, visited |-> visited]
    ELSE LET line == files[path][i]
             blocks == DepthFirstDirs(LineIncludes[line], visited)
             rest == DepthFirstLines(path, i + 1, blocks.visited)
         IN [records |-> <<<<path, i, LineStripped[line]>>>> \o blocks.records \o rest.records,
             visited |-> rest.visited]

DepthFirstDirs(matches, visited) ==
    IF matches = <<>>
    THEN [records |-> <<>>, visited |-> visited]
    ELSE LET first == DepthFirst(IncludedPath[Head(matches)], visited)
             rest == DepthFirstDirs(Tail(matches), first.visited)
         IN [records |-> first.records \o rest.records, visited |-> rest.visited]

-----------------------------------------------------------------------------
(* Claims about the loader.                                                *)

\* C1: for every document tree, one that holds inclusion cycles included,
\* read_latex_recursive started on the entry file returns to main.
C1_LoadTerminates == <>(pc = "loaded")

\* A load that returned on a tree in which a visited file includes itself,
\* directly or through a chain of other files.
C1_Witness ==
    /\ pc = "loaded"
    /\ \E p \in seen : OnCycle(p) /\ p \notin Targets(p)
    /\ \E p \in seen : p \in Targets(p)

\* C2: in the record sequence one load returns, every line of every file
\* reachable from the entry file has exactly one record, and there is no
\* other record: a path visited once adds nothing when it is included again.
C2_EachLineOnce ==
    pc = "loaded" =>
        /\ \A p \in Reachable : \A i \in 1..Len(files[p]) :
               Cardinality(RecordsOf(entries, p, i)) = 1
        /\ \A k \in 1..Len(entries) :
               /\ entries[k][1] \in Reachable
               /\ entries[k][2] \in 1..Len(files[entries[k][1]])
               /\ Cardinality(RecordsOf(entries, entries[k][1], entries[k][2])) = 1

\* A load that returned after it skipped a visited path three ways: included
\* again by the file itself, by the line that included it first, and by a
\* file of another branch.
C2_Witness ==
    /\ pc = "loaded"
    /\ Len(entries) = MaxLines
    /\ \E p \in seen : p \in Targets(p)
    /\ \E p \in seen, q \in seen \ {EntryPath} :
           /\ p # q
           /\ q \in Targets(p) \cap Targets(EntryPath)
           /\ Len(files[q]) > 0

\* C3: when the entry file does not exist the analysis does not complete:
\* main never reaches the end of the report with the entry file missing.
C3_MissingEntryIsFatal == (EntryPath \notin present) => pc # "done"

\* C4: the records the load returns are in depth-first inclusion order: a
\* file's lines in line order, each followed at once by the complete blocks of
\* the files its directives include for the first time, left to right.
C4_DepthFirstOrder ==
    pc = "loaded" => entries = DepthFirst(EntryPath, {}).records

\* A load that returned records of three files, where a line with two
\* directives is followed by another line of the same file.
C4_Witness ==
    /\ pc = "loaded"
    /\ Cardinality({entries[k][1] : k \in 1..Len(entries)}) = 3
    /\ \E i \in 1..Len(files[EntryPath]) :
           /\ Len(LineIncludes[files[EntryPath][i]]) = 2
           /\ i < Len(files[EntryPath])
           /\ entries[Len(entries)] = <<EntryPath, i + 1, LineStripped[files[EntryPath][i + 1]]>>

-----------------------------------------------------------------------------
(* Claims about the usage scanner.                                         *)

\* The indices of the records at or after the first one holding the marker.
BodyIndexes ==
    {k \in 1..Len(entries) : \E j \in 1..k : HasMarker[entries[j][3]]}

\* The line numbers of the records a dict of record lists holds.
LineNosOf(d) ==
    UNION {{d[i][2][k][2] : k \in 1..Len(d[i][2])} : i \in 1..Len(d)}

\* How often x occurs in the list d holds for k.
CountIn(d, k, x) ==
    IF k \in Keys(d)
    THEN Cardinality({j \in 1..Len(Get(d, k)) : Get(d, k)[j] = x})
    ELSE 0

\* w stands in l at index p as a whole word, letter case aside.
OccursAsWord(l, p, w) ==
    /\ p + Len(w) - 1 <= Len(l)
    /\ Lower(SubSeq(l, p, p + Len(w) - 1)) = Lower(w)
    /\ p = 1 \/ ~IsWordChar(Ch(l, p - 1))
    /\ p + Len(w) > Len(l) \/ ~IsWordChar(Ch(l, p + Len(w)))

\* l holds the form f, or f with a trailing "s", as a whole word.
HoldsForm ==
    [l \in ScanCorpus |-> [f \in CorpusForms |->
        \E p \in 1..Len(l) : OccursAsWord(l, p, f) \/ OccursAsWord(l, p, f \o "s")]]

\* l holds the long form f as a whole word that "(t)" does not follow at once.
HoldsAlone ==
    [l \in ScanCorpus |-> [f \in CorpusFullForms |-> [t \in CorpusTokens |->
        \E p \in 1..Len(l) :
            /\ OccursAsWord(l, p, f)
            /\ ~StartsWithAt(Lower(LStrip(SubSeq(l, p + Len(f), Len(l)))), 1,
                             Lower("(" \o t \o ")"))]]]

\* How many times "(t)" stands in l.
TimesIn ==
    [l \in ScanCorpus |-> [t \in CorpusTokens |->
        Cardinality({p \in 1..Len(l) : StartsWithAt(l, p, "(" \o t \o ")")})]]

\* The sum of f over the set S of numbers-indexed things.
RECURSIVE SumOver(_, _)
SumOver(S, f) ==
    IF S = {} THEN 0
    ELSE LET x == CHOOSE y \in S : TRUE IN f[x] + SumOver(S \ {x}, f)

\* How many times "(t)" stands in the body.
BodyTimes(t) ==
    SumOver(BodyIndexes, [k \in BodyIndexes |-> TimesIn[entries[k][3]][t]])

\* The short forms of the definitions extracted so far.
ShortForms == {acronym_defs[i][2].short : i \in 1..Len(acronym_defs)}

\* The tokens the list `undefined` reports.
ListedTokens == {undefined[k][1] : k \in 1..Len(undefined)}

\* C5: no record before the first record that holds the document-start marker
\* is in a usage collection, among the undefined-acronym occurrences or among
\* the inconsistent usages, and the records from the marker's on are the only
\* body; a definition on any record, before the marker too, is extracted.
C5_BodyOnly ==
    /\ LineNosOf(used_full) \cup LineNosOf(used_short) \subseteq BodyIndexes
    /\ LineNosOf(undefined_counts) \cup LineNosOf(inconsistent_usage) \subseteq BodyIndexes
    /\ {undefined[k][3] : k \in 1..Len(undefined)} \subseteq BodyIndexes
    /\ bi = Len(entries) =>
           {content_entries[k][2] : k \in 1..Len(content_entries)} = BodyIndexes
    /\ pc # "extract" =>
           \A k \in 1..Len(entries) :
               DefOf[entries[k][3]].ok => DefOf[entries[k][3]].key \in Keys(acronym_defs)

\* A finished scan of records where, before the marker, one record defines an
\* acronym and uses its forms and another holds a parenthesized token, and
\* where the marker's own record is reported as a usage.
C5_Witness ==
    /\ pc = "scanned"
    /\ \E k \in (1..Len(entries)) \ BodyIndexes :
           /\ DefOf[entries[k][3]].ok
           /\ UsesForm[entries[k][3]][DefOf[entries[k][3]].full]
    /\ \E k \in (1..Len(entries)) \ BodyIndexes :
           \E j \in 1..Len(TokensOf[entries[k][3]]) :
               TokensOf[entries[k][3]][j] \notin ShortForms \cup roman_numerals
    /\ \E k \in BodyIndexes :
           /\ HasMarker[entries[k][3]]
           /\ k \in LineNosOf(used_full) \cap LineNosOf(used_short)

\* C6: a parenthesized token of 2 to 10 capitals that is no defined short form
\* and no Roman numeral is reported exactly when it stands 2 or more times in
\* the body, and then each of its occurrences is reported, record by record.
C6_NoiseFilter ==
    pc = "scanned" =>
        \A t \in CorpusTokens \ (ShortForms \cup roman_numerals) :
            /\ t \in ListedTokens <=> BodyTimes(t) >= 2
            /\ t \in ListedTokens =>
                   \A k \in 1..Len(entries) :
                       Cardinality({j \in 1..Len(undefined) :
                           undefined[j] = <<t, entries[k][1], entries[k][2],
                                            StrippedOf[entries[k][3]]>>})
                       = IF k \in BodyIndexes THEN TimesIn[entries[k][3]][t] ELSE 0

\* A finished scan with one token that stands once in the body and is not
\* reported and another that stands in two records and is reported.
C6_Witness ==
    /\ pc = "scanned"
    /\ \E t \in CorpusTokens \ (ShortForms \cup roman_numerals) :
           BodyTimes(t) = 1 /\ t \notin ListedTokens
    /\ \E t \in ListedTokens :
           Cardinality({undefined[k][3] : k \in {j \in 1..Len(undefined) :
                                                    undefined[j][1] = t}}) = 2

C8_StandaloneFlagged ==
    pc = "scanned" =>
        \A t \in Keys(undefined_full_forms) :
            \A f \in Get(undefined_full_forms, t) : \A k \in 1..Len(entries) :
                CountIn(inconsistent_usage, t,
                        <<entries[k][1], entries[k][2], StrippedOf[entries[k][3]], f>>)
                = IF k \in BodyIndexes /\ HoldsAlone[entries[k][3]][f][t]
                  THEN 1 ELSE 0

\* A finished scan where "Variational Autoencoder" was recovered for VAE, the
\* line "Variational Autoencoder (VAE)" is not flagged and a line that holds
\* the long form with no "(VAE)" behind it is.
C8_Witness ==
    /\ pc = "scanned"
    /\ "VAE" \in Keys(undefined_full_forms) \cap Keys(inconsistent_usage)
    /\ "Variational Autoencoder" \in Get(undefined_full_forms, "VAE")
    /\ \E k \in BodyIndexes :
           /\ entries[k][3] = "Variational Autoencoder (VAE)"
           /\ \A j \in 1..Len(Get(inconsistent_usage, "VAE")) :
                  Get(inconsistent_usage, "VAE")[j][2] # k
    /\ \E k \in BodyIndexes :
           CountIn(inconsistent_usage, "VAE",
                   <<entries[k][1], k, "a variational autoencoder, VAEs (VAE) (II)",
                     "Variational Autoencoder">>) = 1

\* C9: after the scan of a body that holds the line "see the Austrian
\* Institute of Technology (AIT) developed", the long forms recovered for AIT
\* include "Austrian Institute of Technology".
C9_RecoversInstitute ==
    (/\ pc = "scanned"
     /\ \E k \in BodyIndexes :
            entries[k][3] = "see the Austrian Institute of Technology (AIT) developed")
    => /\ "AIT" \in Keys(undefined_full_forms)
       /\ "Austrian Institute of Technology" \in Get(undefined_full_forms, "AIT")

\* C10: a token that is a defined short form or a Roman numeral from I to XX
\* is never among the recorded occurrences, never has a recovered long form
\* and is never reported, however often it stands in the body.
C10_ExcludedNeverRecorded ==
    pc \in {"scan", "scanned"} =>
        \A t \in ShortForms \cup roman_numerals :
            /\ t \notin Keys(undefined_counts)
            /\ t \notin Keys(undefined_full_forms)
            /\ t \notin Keys(inconsistent_usage)
            /\ t \notin ListedTokens

\* A finished scan of a body where a defined short form stands in parentheses
\* twice and a Roman numeral stands in parentheses twice.
C10_Witness ==
    /\ pc = "scanned"
    /\ \E t \in ShortForms \cap CorpusTokens : BodyTimes(t) >= 2
    /\ \E t \in roman_numerals \cap CorpusTokens : BodyTimes(t) >= 2

-----------------------------------------------------------------------------
(* Claims about the definition extractor.                                  *)

\* The records on whose line the definition command matches with key k.
DefiningRecords(k) ==
    {n \in 1..Len(entries) :
        DefOf[entries[n][3]].ok /\ DefOf[entries[n][3]].key = k}

\* The text of the first brace group after the first command of line l.
FirstCommandKey(l) ==
    LET pre == "\\newacronym{"
        p == Find(l, pre, 1)
    IN SubSeq(l, p + Len(pre), IndexOfChar(l, "}", p + Len(pre)) - 1)

\* The greatest number of a non-empty set of numbers.
Greatest(S) == CHOOSE n \in S : \A m \in S : m <= n

\* C11: once the definitions are extracted, the mapping holds one entry per
\* key defined on some record, and no other; the entry's short form, long form
\* and location are those of the last record, in loader order, that defines
\* the key; and a line that carries the command more than once defines only
\* the key of its first command.
C11_LastDefinitionWins ==
    pc \in {"scan", "scanned"} =>
        /\ \A i, j \in 1..Len(acronym_defs) :
               acronym_defs[i][1] = acronym_defs[j][1] => i = j
        /\ Keys(acronym_defs) =
               {FirstCommandKey(entries[n][3]) :
                    n \in {m \in 1..Len(entries) : DefOf[entries[m][3]].ok}}
        /\ \A k \in Keys(acronym_defs) :
               LET rec == entries[Greatest(DefiningRecords(k))]
               IN Get(acronym_defs, k) =
                      [short |-> DefOf[rec[3]].short, full |-> DefOf[rec[3]].full,
                       file |-> rec[1], line |-> rec[2]]

\* The definitions extracted from records of which two define the key "vae"
\* differently, the later one on a line that carries a second command, too.
C11_Witness ==
    /\ pc \in {"scan", "scanned"}
    /\ \E i, j \in 1..Len(entries) :
           /\ i < j
           /\ entries[i][3] = "\\newacronym{vae}{VAE}{Variational Autoencoder}"
           /\ entries[j][3] =
                  "\\newacronym{vae}{ VA }{World Model}\\newacronym{ai}{AI}{Artificial Intelligence}"
           /\ DefiningRecords("vae") = {i, j}
    /\ Keys(acronym_defs) = {"vae"}
    /\ Get(acronym_defs, "vae").short = "VA"
    /\ Get(acronym_defs, "vae").full = "World Model"

-----------------------------------------------------------------------------
(* Claims about the findings of the scan as a whole.                       *)

\* C14: after the scan every token with recovered long forms or with an
\* inconsistent usage is among the reported tokens and has at least two
\* recorded occurrences, and a token that stands in parentheses once in the
\* body has neither a recovered long form nor an inconsistent usage.
C14_FindingsAreRepeated ==
    pc = "scanned" =>
        /\ \A t \in Keys(undefined_full_forms) \cup Keys(inconsistent_usage) :
               /\ t \in ListedTokens
               /\ t \in Keys(undefined_counts)
               /\ Len(Get(undefined_counts, t)) >= 2
        /\ \A t \in CorpusTokens :
               BodyTimes(t) = 1 =>
                   t \notin Keys(undefined_full_forms) \cup Keys(inconsistent_usage)

-----------------------------------------------------------------------------
(* Claims about the sentence extractor.                                    *)

\* The stage of extract_sentence_containing_text a position belongs to: 1 the
\* backward search, 2 the forward search, 3 the length check, 4 the narrowing
\* attempt, 5 the fallback expansion; 0 before them and 6 after the return.
StageOf(p) ==
    CASE p = "find" -> 0
      [] p = "backward" -> 1
      [] p = "forward" -> 2
      [] p = "length" -> 3
      [] p \in {"narrow_start", "narrow_end"} -> 4
      [] p = "fallback" -> 5
      [] OTHER -> 6

\* No step of the extraction goes back to an earlier stage.
StagesInOrder == [][StageOf(pc') >= StageOf(pc)]_vars

\* The text has a character that is not whitespace, and the target is not in
\* the text or begins with a character that is not whitespace.
TextAndTargetVisible ==
    /\ Strip(text) # ""
    /\ \/ ~Contains(text, target_text)
       \/ target_text # "" /\ ~IsSpace(Ch(target_text, 1))

\* C12 as stated: the stages of the extraction run in their order, none is
\* gone back to, and whatever the line and the target the returned value is
\* a non-empty string.
C12_AlwaysNonEmpty ==
    StagesInOrder /\ [](pc = "returned" => sentence # "")

\* C12, amended: the stages of the extraction run in their order, none is gone
\* back to, and the returned value is a non-empty string whenever the line
\* has a non-whitespace character and the target is absent from the line or
\* begins with a non-whitespace character.
C12_NonEmptyForVisibleText ==
    StagesInOrder /\ []((pc = "returned" /\ TextAndTargetVisible) => sentence # "")

\* A return from a line of more than 400 characters that holds the target,
\* after both searches, the length check, the narrowing attempt, which cut
\* the sentence down, and the fallback test.
C12_Witness ==
    /\ pc = "returned"
    /\ TextAndTargetVisible
    /\ target_pos >= 0
    /\ Len(Strip(Slice(text, sentence_start, sentence_end))) > 400
    /\ best_start < best_end
    /\ sentence = Strip(Slice(Strip(Slice(text, sentence_start, sentence_end)),
                              best_start, best_end))
    /\ Contains(sentence, target_text)
    /\ Len(sentence) < Len(text)

\* The period at index p of t directly follows an abbreviation of the list.
FollowsAbbreviation(t, p) ==
    \E k \in 1..Len(abbreviations) :
        /\ p >= Len(abbreviations[k])
        /\ Lower(Slice(t, p - Len(abbreviations[k]), p)) = abbreviations[k]

\* The ten characters before index p of t hold the start of a web address.
FollowsAddress(t, p) ==
    LET before == Lower(Slice(t, Max(0, p - 10), p))
    IN Contains(before, "http") \/ Contains(before, "www")

\* A space and an uppercase letter follow index p of t.
BeforeNewSentence(t, p) ==
    /\ p + 2 < Len(t)
    /\ At(t, p + 1) = " "
    /\ IsUpper(At(t, p + 2))

\* The indices of the periods of each line that directly follow an
\* abbreviation of the list.
AbbreviationPeriods ==
    [t \in SentenceCorpus |->
        {p \in 0..(Len(t) - 1) : At(t, p) = "." /\ FollowsAbbreviation(t, p)}]

\* The indices of the periods of each line that a space and an uppercase
\* letter follow, after no abbreviation and no web address.
NewSentencePeriods ==
    [t \in SentenceCorpus |->
        {p \in 0..(Len(t) - 1) :
            /\ At(t, p) = "."
            /\ BeforeNewSentence(t, p)
            /\ ~FollowsAbbreviation(t, p)
            /\ ~FollowsAddress(t, p)}]

\* C13: a period that directly follows an abbreviation of the list is not a
\* sentence boundary and the sentence never starts or ends at one; a period
\* that a space and an uppercase letter follow, after no abbreviation and no
\* web address, is a boundary; and for the line "Dr. Smith uses e.g. models.
\* The VAE (VAE) is good." with target "(VAE)" the value returned is
\* "The VAE (VAE) is good.".
C13_AbbreviationsSuppressed ==
    /\ \A p \in AbbreviationPeriods[text] : ~BoundaryAt[text][p]
    /\ \A p \in NewSentencePeriods[text] : BoundaryAt[text][p]
    /\ StageOf(pc) \in 2..5 =>
           (sentence_start - 1) \notin AbbreviationPeriods[text]
    /\ StageOf(pc) \in 3..5 =>
           (sentence_end - 1) \notin AbbreviationPeriods[text]
    /\ (/\ pc = "returned"
        /\ text = "Dr. Smith uses e.g. models. The VAE (VAE) is good."
        /\ target_text = "(VAE)")
       => /\ sentence = "The VAE (VAE) is good."
          /\ sentence = Slice(text, 28, Len(text))

\* The return for the line "Dr. Smith uses e.g. models. The VAE (VAE) is
\* good." and the target "(VAE)", the backward search having passed the
\* periods of "e.g." and stopped at the one of "models.".
C13_Witness ==
    /\ pc = "returned"
    /\ text = "Dr. Smith uses e.g. models. The VAE (VAE) is good."
    /\ target_text = "(VAE)"
    /\ target_pos = 36
    /\ sentence_start = 27
    /\ sentence_end = 50
    /\ AbbreviationPeriods[text] = {2, 18}
    /\ NewSentencePeriods[text] = {26}
    /\ BoundaryAt[text][26]


=============================================================================
